---------------------------- MODULE Spec2Model ----------------------------
(***************************************************************************)
(* Maplist Generator (src/maplist.py): the fetch pipeline                  *)
(*   get_collection_item_ids -> get_published_file_details ->              *)
(*   generate_maplist                                                      *)
(* as a state machine.  Strings are sequences of code points, files are    *)
(* sequences of bytes, the remote service is the environment: its          *)
(* responses are drawn from small sets.                                    *)
(***************************************************************************)
EXTENDS Integers, Sequences, FiniteSets, TLC

\* ------------------------------------------------------------- constants
BATCH_SIZE == 50

\* bounds of the model
MaxN == 101      \* largest number of children the remote collection holds
MaxRuns == 2     \* how many times the Generate button is pressed
Period == 8      \* period of the collection that lists items repeatedly

Min(a, b) == IF a < b THEN a ELSE b

\* ------------------------------------------------------------- strings
\* str(n) of a natural number: its decimal digits
RECURSIVE Decimal(_)
Decimal(n) ==
    IF n < 10 THEN <<48 + n>> ELSE Decimal(n \div 10) \o <<48 + (n % 10)>>

\* value of a string of decimal digits (reading aid for the requests)
RECURSIVE ParseInt(_)
ParseInt(s) ==
    IF s = <<>> THEN 0
    ELSE 10 * ParseInt(SubSeq(s, 1, Len(s) - 1)) + (s[Len(s)] - 48)

\* the characters str.strip() removes (code points below 256)
Whitespace == {9, 10, 11, 12, 13, 28, 29, 30, 31, 32, 133, 160}

RECURSIVE LStrip(_)
LStrip(s) ==
    IF s = <<>> THEN s
    ELSE IF Head(s) \in Whitespace THEN LStrip(Tail(s)) ELSE s

RECURSIVE RStrip(_)
RStrip(s) ==
    IF s = <<>> THEN s
    ELSE IF s[Len(s)] \in Whitespace THEN RStrip(SubSeq(s, 1, Len(s) - 1))
    ELSE s

\* a mutation of Strip: only the leading whitespace is removed
StripLeadingOnly(s) == LStrip(s)

\* title.strip()
Strip(s) == RStrip(LStrip(s))

\* a < b or a = b in the order of Python's str comparison (by code point,
\* a proper prefix first)
RECURSIVE LexLeq(_, _)
LexLeq(a, b) ==
    IF a = <<>> THEN TRUE
    ELSE IF b = <<>> THEN FALSE
    ELSE IF Head(a) # Head(b) THEN Head(a) < Head(b)
    ELSE LexLeq(Tail(a), Tail(b))

\* a < b in that order
LexLess(a, b) == LexLeq(a, b) /\ a # b

\* how many elements of the sorted sequence b are less than x, when those
\* before position lo are and those after position hi are not
RECURSIVE CountLess(_, _, _, _)
CountLess(b, x, lo, hi) ==
    IF lo > hi THEN lo - 1
    ELSE LET m == (lo + hi) \div 2
         IN  IF LexLess(b[m], x) THEN CountLess(b, x, m + 1, hi)
             ELSE CountLess(b, x, lo, m - 1)

\* the stable merge of two sorted sequences: the middle element of a goes
\* after the elements of b less than it, the rest is merged on either side
RECURSIVE Merge(_, _)
Merge(a, b) ==
    IF a = <<>> THEN b
    ELSE IF b = <<>> THEN a
    ELSE LET h == (Len(a) + 1) \div 2
             c == CountLess(b, a[h], 1, Len(b))
         IN  Merge(SubSeq(a, 1, h - 1), SubSeq(b, 1, c)) \o <<a[h]>>
               \o Merge(SubSeq(a, h + 1, Len(a)), SubSeq(b, c + 1, Len(b)))

\* a mutation of Sorted: the lines are left in the order of the records
SortedOmitted(s) == s

\* sorted(...) of a sequence of strings: a stable merge sort
RECURSIVE Sorted(_)
Sorted(s) ==
    IF Len(s) <= 1 THEN s
    ELSE LET h == Len(s) \div 2
         IN  Merge(Sorted(SubSeq(s, 1, h)), Sorted(SubSeq(s, h + 1, Len(s))))

\* the concatenation f[lo] \o ... \o f[hi] of a sequence of sequences
RECURSIVE Flatten(_, _, _)
Flatten(f, lo, hi) ==
    IF lo > hi THEN <<>>
    ELSE IF lo = hi THEN f[lo]
    ELSE LET m == (lo + hi) \div 2
         IN  Flatten(f, lo, m) \o Flatten(f, m + 1, hi)

\* a mutation of Join: every line is ended by a newline, and so is the file
JoinTerminated(lines) ==
    Flatten([j \in 1..Len(lines) |-> lines[j]], 1, Len(lines)) \o <<10>>

\* "\n".join(lines)
Join(lines) ==
    Flatten([j \in 1..Len(lines) |->
                IF j = 1 THEN lines[j] ELSE <<10>> \o lines[j]], 1, Len(lines))

\* os.linesep of the platform the program runs on (it needs APPDATA)
LineSep == <<13, 10>>

\* the UTF-8 bytes of one code point below 2048
Utf8(c) == IF c < 128 THEN <<c>> ELSE <<192 + (c \div 64), 128 + (c % 64)>>

\* the bytes f.write(text) puts in a file opened with open(path, "w",
\* encoding="utf-8"): the newline is translated to os.linesep
RECURSIVE FileBytes(_)
FileBytes(text) ==
    IF Len(text) = 0 THEN <<>>
    ELSE IF Len(text) = 1 THEN (IF text[1] = 10 THEN LineSep ELSE Utf8(text[1]))
    ELSE LET h == Len(text) \div 2
         IN  FileBytes(SubSeq(text, 1, h)) \o FileBytes(SubSeq(text, h + 1, Len(text)))

\* ------------------------------------------------------ the remote service
\* The titles the remote catalogue holds, by item number modulo their count:
\* no title, "", "  ", "  Dust2  ", "Zoo", "\tde_a b ", "e-acute x", "Dust2"
TitleTable ==
    << [hasTitle |-> FALSE, title |-> <<>>],
       [hasTitle |-> TRUE,  title |-> <<>>],
       [hasTitle |-> TRUE,  title |-> <<32, 32>>],
       [hasTitle |-> TRUE,  title |-> <<32, 32, 68, 117, 115, 116, 50, 32, 32>>],
       [hasTitle |-> TRUE,  title |-> <<90, 111, 111>>],
       [hasTitle |-> TRUE,  title |-> <<9, 100, 101, 95, 97, 32, 98, 32>>],
       [hasTitle |-> TRUE,  title |-> <<233, 120>>],
       [hasTitle |-> TRUE,  title |-> <<68, 117, 115, 116, 50>>] >>

\* the record of item number k in a publishedfiledetails list
Catalogue(k) ==
    LET t == TitleTable[(k % Len(TitleTable)) + 1]
    IN  [publishedfileid |-> Decimal(k), hasTitle |-> t.hasTitle,
         title |-> t.title]

\* items the service no longer knows: it returns no record for them
Withdrawn(k) == k % 9 = 0

Reverse(s) == [j \in 1..Len(s) |-> s[Len(s) + 1 - j]]

Orders == {"fwd", "rev"}

InOrder(s, order) == IF order = "fwd" THEN s ELSE Reverse(s)

\* the records the service returns for the identifiers of one request
RecordsFor(batch, order) ==
    InOrder(Flatten([j \in 1..Len(batch) |->
                        IF Withdrawn(ParseInt(batch[j])) THEN <<>>
                        ELSE <<Catalogue(ParseInt(batch[j]))>>],
                    1, Len(batch)),
            order)

\* a response of the transport: net is what requests.post met, status the
\* HTTP status, body the shape of the body, payload the list the body holds
Response(net, status, body, payload) ==
    [net |-> net, status |-> status, body |-> body, payload |-> payload]

FailedResponses ==
    { Response("connection", 0, "none", <<>>),
      Response("timeout", 0, "none", <<>>),
      Response("ok", 404, "good", <<>>),
      Response("ok", 500, "notjson", <<>>),
      Response("ok", 200, "notjson", <<>>),
      Response("ok", 200, "nokey", <<>>) }

\* the collection the remote service holds: n children, each listed once or
\* the same Period items listed again and again
Collections ==
    { [j \in 1..n |-> [publishedfileid |->
          Decimal(IF pat = "distinct" THEN j ELSE ((j - 1) % Period) + 1)]] :
      n \in 0..MaxN, pat \in {"distinct", "repeating"} }

\* --------------------------------------------------------------- the state
VARIABLES
    collection,   \* remote: the children of the collection, as the service holds them
    run,          \* how many times generate() has been started
    pc,           \* where the run is: idle, collection, loop, details, sleep, done, error
    ids,          \* generate_maplist: ids
    i,            \* get_published_file_details: the loop variable i
    result,       \* get_published_file_details: result
    lines,        \* generate_maplist: lines
    outstanding,  \* positions in trace of the requests that await their response
    trace,        \* the requests of this run, in the order they were issued
    nresp,        \* detail responses appended to result in this run
    sleeps,       \* time.sleep(0.8) calls completed in this run
    cause,        \* the response that made this run fail
    failedAt,     \* where the run was when it failed: collection or details
    error,        \* the exception generate() caught, "none" if none
    returned,     \* the path generate_maplist returned, <<>> if none
    dirExists,    \* file system: output_dir exists
    fileExists,   \* file system: output_dir/maplist.txt exists
    fileBytes,    \* file system: the bytes of output_dir/maplist.txt
    fsAtStart,    \* the file system when this run started
    prevOk,       \* an earlier run succeeded
    prevIds,      \* ids of the last earlier run that succeeded
    prevBytes     \* the bytes that run wrote

vars == <<collection, run, pc, ids, i, result, lines, outstanding, trace, nresp,
          sleeps, cause, failedAt, error, returned, dirExists, fileExists,
          fileBytes, fsAtStart, prevOk, prevIds, prevBytes>>

remote == <<collection>>
locals == <<ids, i, result, lines>>
fs == <<dirExists, fileExists, fileBytes>>
prev == <<prevOk, prevIds, prevBytes>>

\* what the user typed in the form
collection_id == <<52, 50>>
output_dir == "out"

NoResponse == Response("none", 0, "none", <<>>)

FileSystem == [dir |-> dirExists, file |-> fileExists, bytes |-> fileBytes]

Init ==
    /\ collection \in Collections
    /\ run = 0
    /\ pc = "idle"
    /\ ids = <<>>
    /\ i = 0
    /\ result = <<>>
    /\ lines = <<>>
    /\ outstanding = {}
    /\ trace = <<>>
    /\ nresp = 0
    /\ sleeps = 0
    /\ cause = NoResponse
    /\ failedAt = "none"
    /\ error = "none"
    /\ returned = <<>>
    /\ dirExists = FALSE
    /\ fileExists = FALSE
    /\ fileBytes = <<>>
    /\ fsAtStart = [dir |-> FALSE, file |-> FALSE, bytes |-> <<>>]
    /\ prevOk = FALSE
    /\ prevIds = <<>>
    /\ prevBytes = <<>>

\* ------------------------------------------------------------ the handlers
\* generate() is started and runs up to the collection request of
\* get_collection_item_ids
Generate ==
    /\ pc \in {"idle", "done", "error"}
    /\ run < MaxRuns
    /\ run' = run + 1
    /\ pc' = "collection"
    /\ trace' = << [url |-> "GetCollectionDetails",
                    data |-> [collectioncount |-> <<49>>,
                              publishedfileids |-> [x \in {0} |-> collection_id]]] >>
    /\ outstanding' = {1}
    /\ ids' = <<>>
    /\ i' = 0
    /\ result' = <<>>
    /\ lines' = <<>>
    /\ nresp' = 0
    /\ sleeps' = 0
    /\ cause' = NoResponse
    /\ failedAt' = "none"
    /\ error' = "none"
    /\ returned' = <<>>
    /\ fsAtStart' = FileSystem
    /\ prevOk' = (prevOk \/ pc = "done")
    /\ prevIds' = IF pc = "done" THEN ids ELSE prevIds
    /\ prevBytes' = IF pc = "done" THEN fileBytes ELSE prevBytes
    /\ UNCHANGED <<remote, fs>>

\* a mutation of Raise: before the exception leaves generate_maplist the
\* records fetched so far are written
RaiseAfterWrite(exc, resp) ==
    /\ pc' = "error"
    /\ error' = exc
    /\ cause' = resp
    /\ failedAt' = pc
    /\ outstanding' = {}
    /\ dirExists' = TRUE
    /\ fileExists' = TRUE
    /\ fileBytes' = FileBytes(Join([j \in 1..Len(result) |-> result[j].publishedfileid]))
    /\ UNCHANGED <<remote, run, locals, trace, nresp, sleeps, returned,
                   fsAtStart, prev>>

\* a mutation of Raise: the failed request is tried again
RaiseRetried(exc, resp) ==
    /\ pc' = IF pc = "details" THEN "loop" ELSE "error"
    /\ error' = IF pc = "details" THEN error ELSE exc
    /\ cause' = resp
    /\ failedAt' = pc
    /\ outstanding' = {}
    /\ UNCHANGED <<remote, run, locals, trace, nresp, sleeps, returned, fs,
                   fsAtStart, prev>>

\* an exception leaves generate_maplist and is caught by generate()
Raise(exc, resp) ==
    /\ pc' = "error"
    /\ error' = exc
    /\ cause' = resp
    /\ failedAt' = pc
    /\ outstanding' = {}
    /\ UNCHANGED <<remote, run, locals, trace, nresp, sleeps, returned, fs,
                   fsAtStart, prev>>

\* what requests.post, raise_for_status and r.json() raise on resp, "none"
\* when they raise nothing
TransportFault(resp) ==
    IF resp.net = "connection" THEN "ConnectionError"
    ELSE IF resp.net = "timeout" THEN "Timeout"
    ELSE IF resp.status >= 400 /\ resp.status < 600 THEN "HTTPError"
    ELSE IF resp.body = "notjson" THEN "JSONDecodeError"
    ELSE "none"

\* what j["response"]["collectiondetails"][0]["children"] raises
CollectionFault(resp) ==
    IF resp.body = "nokey" THEN "KeyError"
    ELSE IF resp.body = "emptylist" THEN "IndexError"
    ELSE "none"

\* what r.json()["response"]["publishedfiledetails"] raises
DetailsFault(resp) ==
    IF resp.body = "nokey" THEN "KeyError" ELSE "none"

CollectionResponses ==
    FailedResponses
    \cup {Response("ok", 200, "emptylist", <<>>)}
    \cup {Response("ok", 200, "good", InOrder(collection, o)) : o \in Orders}

\* get_collection_item_ids from the response to its return
CollectionResponse(resp) ==
    /\ pc = "collection"
    /\ IF TransportFault(resp) # "none" THEN Raise(TransportFault(resp), resp)
       ELSE IF CollectionFault(resp) # "none" THEN Raise(CollectionFault(resp), resp)
       ELSE /\ ids' = [j \in 1..Len(resp.payload) |-> resp.payload[j].publishedfileid]
            /\ i' = 0
            /\ pc' = "loop"
            /\ outstanding' = {}
            /\ UNCHANGED <<remote, run, result, lines, trace, nresp, sleeps,
                           cause, failedAt, error, returned, fs, fsAtStart, prev>>

\* a mutation of Batch: the slice runs one element too far
BatchOverlapping(s, k) == SubSeq(s, k + 1, Min(k + BATCH_SIZE + 1, Len(s)))

\* ids[i:i + BATCH_SIZE]
Batch(s, k) == SubSeq(s, k + 1, Min(k + BATCH_SIZE, Len(s)))

\* the loop of get_published_file_details enters its body and posts the batch
BatchRequest ==
    /\ pc = "loop"
    /\ i < Len(ids)
    /\ LET batch == Batch(ids, i)
       IN  trace' = Append(trace,
              [url |-> "GetPublishedFileDetails",
               data |-> [itemcount |-> Decimal(Len(batch)),
                         publishedfileids |->
                             [idx \in 0..(Len(batch) - 1) |-> batch[idx + 1]]]])
    /\ outstanding' = {Len(trace) + 1}
    /\ pc' = "details"
    /\ UNCHANGED <<remote, run, locals, nresp, sleeps, cause, failedAt, error, returned,
                   fs, fsAtStart, prev>>

\* the identifiers the request at position p of trace carries, in field order
Carried(p) ==
    LET d == trace[p].data
    IN  [j \in 1..Cardinality(DOMAIN d.publishedfileids) |-> d.publishedfileids[j - 1]]

DetailsResponses ==
    FailedResponses
    \cup {Response("ok", 200, "good", RecordsFor(Carried(Len(trace)), o)) : o \in Orders}

\* a mutation of DetailsReturn: no delay after the last batch
DetailsReturnNoTrailingSleep(resp) ==
    /\ result' = result \o resp.payload
    /\ nresp' = nresp + 1
    /\ outstanding' = {}
    /\ IF i + BATCH_SIZE >= Len(ids)
       THEN pc' = "loop" /\ i' = i + BATCH_SIZE
       ELSE pc' = "sleep" /\ i' = i
    /\ UNCHANGED <<remote, run, ids, lines, trace, sleeps, cause, failedAt, error,
                   returned, fs, fsAtStart, prev>>

\* result.extend(...): the records of the response are appended
DetailsReturn(resp) ==
    /\ result' = result \o resp.payload
    /\ nresp' = nresp + 1
    /\ outstanding' = {}
    /\ pc' = "sleep"
    /\ UNCHANGED <<remote, run, ids, i, lines, trace, sleeps, cause, failedAt, error,
                   returned, fs, fsAtStart, prev>>

\* the body of the loop from the response to time.sleep
DetailsResponse(resp) ==
    /\ pc = "details"
    /\ IF TransportFault(resp) # "none" THEN Raise(TransportFault(resp), resp)
       ELSE IF DetailsFault(resp) # "none" THEN Raise(DetailsFault(resp), resp)
       ELSE DetailsReturn(resp)

\* time.sleep(0.8) ends and the loop goes to its next value of i
Sleep ==
    /\ pc = "sleep"
    /\ sleeps' = sleeps + 1
    /\ i' = i + BATCH_SIZE
    /\ pc' = "loop"
    /\ UNCHANGED <<remote, run, ids, result, lines, outstanding, trace, nresp,
                   cause, failedAt, error, returned, fs, fsAtStart, prev>>

\* item.get("title") is truthy
TitlePasses(item) == item.hasTitle /\ item.title # <<>>

\* f"{item['title'].strip()}:{item['publishedfileid']}"
Render(item) == Strip(item.title) \o <<58>> \o item.publishedfileid

\* the generator expression of generate_maplist, in the order of items
Rendered(items) ==
    Flatten([j \in 1..Len(items) |->
                IF TitlePasses(items[j]) THEN <<Render(items[j])>> ELSE <<>>],
            1, Len(items))

\* the loop is exhausted: generate_maplist sorts, writes the file and returns
WriteManifest ==
    /\ pc = "loop"
    /\ i >= Len(ids)
    /\ lines' = Sorted(Rendered(result))
    /\ dirExists' = TRUE
    /\ fileExists' = TRUE
    /\ fileBytes' = FileBytes(Join(lines'))
    /\ returned' = <<output_dir, "maplist.txt">>
    /\ pc' = "done"
    /\ UNCHANGED <<remote, run, ids, i, result, outstanding, trace, nresp,
                   sleeps, cause, failedAt, error, fsAtStart, prev>>

Next ==
    \/ Generate
    \/ \E resp \in CollectionResponses : CollectionResponse(resp)
    \/ BatchRequest
    \/ pc = "details" /\ \E resp \in DetailsResponses : DetailsResponse(resp)
    \/ Sleep
    \/ WriteManifest

Spec == Init /\ [][Next]_vars

\* -------------------------------------------------------------- the claims
\* ceil(n / b), and the number of positions of a sequence that satisfy a test:
\* used by the properties only
CeilDiv(n, b) == (n + b - 1) \div b

\* the identifiers of the detail requests of this run, in issue order
CarriedByAll ==
    Flatten([p \in 1..(Len(trace) - 1) |-> Carried(p + 1)], 1, Len(trace) - 1)

\* C1: the k-th detail request (k from 0) has itemcount = min(50, n - 50k) and
\* carries ids[50k .. 50k + itemcount - 1] at publishedfileids[0..itemcount-1]
\* in the original order; a run in which no request failed issued exactly
\* ceil(n/50) detail requests, whose identifiers concatenated give back ids.
C1_Batching ==
    /\ \A p \in 2..Len(trace) :
          LET k == p - 2
              d == trace[p].data
              count == Min(50, Len(ids) - 50 * k)
          IN  /\ count >= 1
              /\ ParseInt(d.itemcount) = count
              /\ DOMAIN d.publishedfileids = 0..(count - 1)
              /\ \A idx \in 0..(count - 1) :
                    d.publishedfileids[idx] = ids[50 * k + idx + 1]
    /\ pc = "done" =>
          /\ Len(trace) - 1 = CeilDiv(Len(ids), 50)
          /\ CarriedByAll = ids

\* a run over 100 distinct ids (an exact multiple of 50) has ended
C1_Witness ==
    /\ pc = "done"
    /\ Len(ids) = 100
    /\ Len(trace) = 3
    /\ \A a, b \in 1..Len(ids) : a # b => ids[a] # ids[b]

\* C2: the lines written are in non-decreasing lexicographic order and no
\* line occurs twice, also when records render to the same string.
C2_SortedNoDuplicates ==
    pc = "done" => \A m \in 1..(Len(lines) - 1) : LexLess(lines[m], lines[m + 1])

\* C3: no line written has an empty title part, that is, none begins with ":".
C3_NoEmptyTitlePart ==
    pc = "done" => \A m \in 1..Len(lines) : lines[m][1] # 58

\* s from its first to its last character that is not whitespace
TrimOf(s) ==
    LET keep == {k \in 1..Len(s) : s[k] \notin Whitespace}
    IN  IF keep = {} THEN <<>>
        ELSE SubSeq(s, CHOOSE k \in keep : \A m \in keep : k <= m,
                       CHOOSE k \in keep : \A m \in keep : k >= m)

\* the line the claim expects of a record
ExpectedLine(item) == TrimOf(item.title) \o <<58>> \o item.publishedfileid

\* C4: a record whose title is absent or "" contributes no line, every record
\* with a non-empty title contributes exactly the line "<title without its
\* surrounding whitespace>:<id>", and the number of lines is the number of
\* records with a non-empty title.
C4_TitleFilter ==
    pc = "done" =>
        LET pass == {j \in 1..Len(result) :
                        result[j].hasTitle /\ Len(result[j].title) > 0}
        IN  /\ Len(lines) = Cardinality(pass)
            /\ {lines[m] : m \in 1..Len(lines)}
                 = {ExpectedLine(result[j]) : j \in pass}

\* a run has ended whose records hold an absent title, an empty title and a
\* title with whitespace on both sides
C4_Witness ==
    /\ pc = "done"
    /\ \E j \in 1..Len(result) : ~result[j].hasTitle
    /\ \E j \in 1..Len(result) : result[j].hasTitle /\ result[j].title = <<>>
    /\ \E j \in 1..Len(result) :
          /\ Len(result[j].title) > 2
          /\ result[j].title[1] \in Whitespace
          /\ result[j].title[Len(result[j].title)] \in Whitespace
          /\ \E m \in 1..Len(lines) :
                lines[m] = <<68, 117, 115, 116, 50, 58>> \o result[j].publishedfileid

\* C5: a run that has not ended in success has left the output directory and
\* maplist.txt as they were when it started, however many batches succeeded;
\* the file is written only after every request of the run has succeeded.
C5_AllOrNothing ==
    /\ pc # "done" => FileSystem = fsAtStart
    /\ pc = "done" =>
          /\ error = "none"
          /\ nresp = Len(trace) - 1
          /\ nresp = CeilDiv(Len(ids), 50)

\* the third batch failed after two succeeded and nothing was created
C5_Witness ==
    /\ pc = "error"
    /\ failedAt = "details"
    /\ nresp = 2
    /\ ~dirExists
    /\ ~fileExists

\* C6: the Collection Resolver reports a transport failure as a transport
\* error and a body without response.collectiondetails[0].children as an
\* error kind of its own, not as a generic key or index fault; it returns no
\* identifiers in either case.
C6_ErrorKinds ==
    (pc = "error" /\ failedAt = "collection") =>
        /\ ids = <<>>
        /\ (cause.net # "ok" \/ cause.status >= 400) =>
              error \in {"ConnectionError", "Timeout", "HTTPError"}
        /\ (cause.net = "ok" /\ cause.status = 200
                /\ cause.body \in {"nokey", "emptylist"}) =>
              error \notin {"KeyError", "IndexError"}

\* C7: for a collection without children the resolver returns no ids, no
\* detail request is issued, no delay is made, and the run succeeds: it
\* writes a maplist.txt of zero bytes and returns its path.
C7_EmptyCollection ==
    /\ (collection = <<>> /\ pc \in {"loop", "done"}) => ids = <<>>
    /\ collection = <<>> => pc \notin {"details", "sleep"}
    /\ (pc = "loop" /\ ids = <<>>) => (ENABLED WriteManifest /\ ~ENABLED BatchRequest)
    /\ (pc = "done" /\ ids = <<>>) =>
          /\ Len(trace) = 1
          /\ nresp = 0
          /\ sleeps = 0
          /\ error = "none"
          /\ lines = <<>>
          /\ dirExists
          /\ fileExists
          /\ fileBytes = <<>>
          /\ returned = <<output_dir, "maplist.txt">>

\* the run over the empty collection has ended
C7_Witness ==
    /\ collection = <<>>
    /\ pc = "done"
    /\ fileExists
    /\ fileBytes = <<>>

\* C8: two successful runs against the same remote state write the same
\* bytes, whatever the order of the children and of the records in each
\* response.
C8_OrderIndependent ==
    (pc = "done" /\ prevOk) => fileBytes = prevBytes

\* two runs have succeeded: the children came in another order, so that the
\* batches and the aggregated records differed, the records of the last
\* response came in reverse, and more than one line was written
C8_Witness ==
    /\ pc = "done"
    /\ prevOk
    /\ Len(ids) > 50
    /\ ids # prevIds
    /\ Len(result) > 1
    /\ LexLess(result[Len(result)].publishedfileid,
               result[Len(result) - 1].publishedfileid)
    /\ Len(lines) > 1

\* C9: at most one request is outstanding; a batch is requested only after
\* every earlier batch was answered, appended and followed by its delay; a
\* delay follows every answered batch, the last one too, so a successful run
\* makes ceil(n/50) delays; no delay follows a failed batch.
C9_SequentialPaced ==
    /\ Cardinality(outstanding) <= 1
    /\ pc = "details" =>
          /\ outstanding = {Len(trace)}
          /\ nresp = Len(trace) - 2
          /\ sleeps = Len(trace) - 2
    /\ pc = "sleep" => (outstanding = {} /\ nresp = sleeps + 1)
    /\ pc = "done" => (sleeps = CeilDiv(Len(ids), 50) /\ nresp = sleeps)
    /\ (pc = "error" /\ failedAt = "details") =>
          (sleeps = nresp /\ sleeps = Len(trace) - 2)

\* a run of three batches has ended in success
C9_Witness ==
    /\ pc = "done"
    /\ Len(trace) = 4
    /\ sleeps = 3

\* C10: the requests of a run are one collection request followed by at most
\* ceil(n/50) detail requests; none is issued again and none is issued after
\* a failure: a failed collection request leaves zero detail requests, a
\* failed batch k leaves k + 1 of them.
C10_RequestTrace ==
    /\ pc # "idle" =>
          /\ Len(trace) >= 1
          /\ trace[1].url = "GetCollectionDetails"
          /\ \A p \in 2..Len(trace) : trace[p].url = "GetPublishedFileDetails"
    /\ pc = "collection" => Len(trace) = 1
    /\ Len(trace) - 1 <= CeilDiv(Len(ids), 50)
    /\ Len(trace) - 1 <= nresp + 1
    /\ (pc = "error" /\ failedAt = "collection") => Len(trace) = 1
    /\ (pc = "error" /\ failedAt = "details") => Len(trace) - 1 = nresp + 1

\* the second batch of a run failed: two detail requests were issued
C10_Witness ==
    /\ pc = "error"
    /\ failedAt = "details"
    /\ nresp = 1
    /\ Len(trace) = 3
    /\ Len(ids) > 100

=============================================================================
